---------------------------- MODULE Spec2Model ----------------------------
(***************************************************************************)
(* Step orchestration of the installer (installer/cli.py): the loop of     *)
(* run_installation, the reverse-order pass of rollback_completed_steps    *)
(* and the completed-step bookkeeping of InstallContext.                   *)
(*                                                                         *)
(* The steps themselves are inputs of the orchestrator: what a step's      *)
(* check returns and how its run and rollback end is chosen with \E from   *)
(* the outcomes Python allows (return, FatalInstallError, another          *)
(* Exception, a BaseException outside Exception such as                    *)
(* KeyboardInterrupt).                                                     *)
(***************************************************************************)
EXTENDS Naturals, Sequences, FiniteSets

VARIABLES
    steps,            \* run_installation's local `steps`
    pc,               \* where the caller / orchestrator is
    idx,              \* position of the for loop of run_installation in steps
    completed_steps,  \* ctx.completed_steps
    completed_names,  \* rollback_completed_steps' local snapshot set
    rb_pos,           \* position of the for loop of the pass in reversed(steps)
    rb_caller,        \* who invoked rollback_completed_steps
    pending,          \* the FatalInstallError being handled (cli.py:97-99)
    raised,           \* the exception delivered to the caller of the orchestrator
    passes,           \* number of rollback passes started so far
    check_calls,      \* history: <<name, result>> of every step.check call
    run_calls,        \* history: <<name, outcome>> of every step.run call
    rollback_calls,   \* history: names of step.rollback calls of the current pass
    rollback_failed,  \* history: steps whose rollback raised in the current pass
    mark_calls,       \* history: arguments of direct mark_completed calls
    fs,               \* what exists in the project directory and the home directory
    config,           \* ctx.config: the keys the steps have stored
    env,              \* the fixed fields of ctx and the machine the installer runs on
    step_cache,       \* CcpBinaryStep's _version_checked
    invocation,       \* number of run_installation calls started on this directory
    first_goals,      \* history: steps whose check condition held after the first run
    last_call,        \* history: the latest direct call of a step method
    calls_made,       \* number of direct calls of step methods so far
    exit_status,      \* << >> while install() runs, then << its exit code >>
    claude_before,    \* history: << what .claude held when bootstrap last backed it up >>
    checks,           \* what the checks of PreflightStep.run find on this machine
    retry,            \* the call of _run_bash_with_retry in progress
    rules,            \* .claude/rules as MigrationStep sees and leaves it
    shell             \* the shell configuration files and ShellConfigStep's progress

vars == << steps, pc, idx, completed_steps, completed_names, rb_pos, rb_caller,
           pending, raised, passes, check_calls, run_calls, rollback_calls,
           rollback_failed, mark_calls, fs, config, env, step_cache,
           invocation, first_goals, last_call, calls_made, exit_status,
           claude_before, checks, retry, rules, shell >>

\* the state of the concrete steps, which the orchestrator itself never touches
concrete_vars == << fs, config, env, step_cache, invocation, first_goals,
                    last_call, calls_made, exit_status, claude_before, checks,
                    retry, rules, shell >>

\* the inputs and the progress of the functions exercised on their own
probe_vars == << checks, retry, rules, shell >>

---------------------------------------------------------------------------
(* Bounds *)

\* number of steps in the list the orchestrator is exercised on
NumSteps == 4

\* number of rollback passes the caller may start itself after a normal return
MaxPasses == 2

\* number of direct mark_completed calls of the context specification
MaxMarkCalls == 4

\* direct calls of step methods on one context
MaxCalls == 2

\* invocations of run_installation on one project directory
MaxInvocations == 2

\* calls of _run_bash_with_retry made one after the other
MaxRetryCalls == 3

\* dependencies.py:16
MAX_RETRIES == 3

\* cli.py:131: typer.Exit(1)
EXIT_FAILURE == 1

\* cli.py:134: typer.Exit(130)
EXIT_CANCELLED == 130

---------------------------------------------------------------------------
(* Helpers *)

Range(s) == { s[i] : i \in 1..Len(s) }

Reverse(s) == [ i \in 1..Len(s) |-> s[Len(s) + 1 - i] ]

IsPrefix(p, s) == Len(p) <= Len(s) /\ SubSeq(s, 1, Len(p)) = p

NoDuplicates(s) == \A i, j \in 1..Len(s) : s[i] = s[j] => i = j

Count(s, x) == Cardinality({ i \in 1..Len(s) : s[i] = x })

\* position of a name in a duplicate-free sequence that contains it
IndexOf(s, x) == CHOOSE i \in 1..Len(s) : s[i] = x

---------------------------------------------------------------------------
(* Errors (installer/errors.py) *)

NoError == [ kind |-> "none", step |-> "none", op |-> "none" ]

Error(k, name, o) == [ kind |-> k, step |-> name, op |-> o ]

\* what a step's run can do: return, raise FatalInstallError (or a subclass),
\* raise another Exception, raise a BaseException outside Exception
RunOutcomes == { "ok", "fatal", "error", "interrupt" }

\* what a step's rollback can do
RollbackOutcomes == { "ok", "error", "interrupt" }

\* what a step's check can do
CheckOutcomes == { "true", "false", "raise" }

KindOf(outcome) ==
    CASE outcome = "fatal"     -> "FatalInstallError"
      [] outcome = "error"     -> "Exception"
      [] outcome = "interrupt" -> "KeyboardInterrupt"
      [] OTHER                 -> "none"

---------------------------------------------------------------------------
(* InstallContext (installer/context.py) *)

mark_completed_always_appends(cs, name) == Append(cs, name)

\* mark_completed(name): append name unless it is already in the list
mark_completed(cs, name) ==
    IF name \in Range(cs) THEN cs ELSE Append(cs, name)

is_completed(cs, name) == name \in Range(cs)

needs_rollback_after_two(cs) == Len(cs) > 1

\* needs_rollback(): at least one step has been marked completed
needs_rollback(cs) == Len(cs) > 0

---------------------------------------------------------------------------
(* The step list *)

\* mutant: preflight no longer first
get_all_steps_bootstrap_first ==
    << "bootstrap", "preflight", "devcontainer", "migration", "git_setup",
       "claude_files", "config_files", "dependencies", "environment",
       "premium", "shell_config", "finalize" >>

\* mutant: config generation moved ahead of file installation
get_all_steps_config_first ==
    << "preflight", "devcontainer", "bootstrap", "migration", "git_setup",
       "config_files", "claude_files", "dependencies", "environment",
       "premium", "shell_config", "finalize" >>

get_all_steps_with_duplicate ==
    << "preflight", "devcontainer", "preflight", "migration", "git_setup",
       "claude_files", "config_files", "dependencies", "environment",
       "premium", "shell_config", "finalize" >>

\* cli.py:35-50: the step instances by name, in order
get_all_steps ==
    << "preflight", "devcontainer", "bootstrap", "migration", "git_setup",
       "claude_files", "config_files", "dependencies", "environment",
       "premium", "shell_config", "finalize" >>

\* the list the orchestrator is exercised on: the leading NumSteps entries
StepList == SubSeq(get_all_steps, 1, NumSteps)

StepNames == Range(StepList)

---------------------------------------------------------------------------
(* run_installation (cli.py:74-99) *)

SkipsRunNever(c) == FALSE

\* mutant: a step already in ctx.completed_steps is skipped as well
SkipsRunIfCompleted(c) ==
    c = "true" \/ (idx \in 1..Len(steps) /\ is_completed(completed_steps, steps[idx]))

\* cli.py:89-92: `if step.check(ctx): ... continue`
SkipsRun(c) == c = "true"

CompletedAfterRunNever(cs, name, r) == cs

CompletedAfterRunAlways(cs, name, r) == mark_completed(cs, name)

\* cli.py:94-96: mark_completed is reached only when run returned
CompletedAfterRun(cs, name, r) ==
    IF r = "ok" THEN mark_completed(cs, name) ELSE cs

\* mutant: `except BaseException` in place of `except FatalInstallError`
CaughtForRollbackBaseException(r) == r \in { "fatal", "interrupt" }

CaughtForRollbackAnyException(r) == r \in { "fatal", "error" }

\* cli.py:97: `except FatalInstallError`
CaughtForRollback(r) == r = "fatal"

RollbackOnFatalGuarded(cs) == needs_rollback(cs)

\* cli.py:97-98: the handler calls rollback_completed_steps unconditionally
RollbackOnFatal(cs) == TRUE

SwallowsFatal == FALSE

\* cli.py:99: `raise` re-raises the caught error after the pass
PropagatesFatal == TRUE

---------------------------------------------------------------------------
(* rollback_completed_steps (cli.py:53-71) *)

forward_steps(s) == s

\* cli.py:63: `reversed(steps)`
reversed_steps(s) == Reverse(s)

ShouldRollbackAll(name, names) == TRUE

\* cli.py:64: `if step.name in completed_names`
ShouldRollback(name, names) == name \in names

\* mutant: a step that has been rolled back is taken off the completed list
CompletedAfterRollbackRemoves(cs, name) ==
    SelectSeq(cs, LAMBDA x : x # name)

\* cli.py:62-71: the pass reads ctx.completed_steps once (line 60) and
\* never writes it
CompletedAfterRollback(cs, name) == cs

CatchesNothing(o) == FALSE

\* cli.py:69: `except Exception` catches Exception and its subclasses only
CatchesRollbackError(o) == o = "error"

---------------------------------------------------------------------------
(* PreflightStep.run (installer/steps/preflight.py) *)

\* preflight.py:80-98: the checks a failure of which is critical
CriticalChecks == { "disk", "permissions", "tools", "python" }

\* preflight.py:100-109: the check a failure of which is only warned about
OptionalChecks == { "network" }

\* what one machine answers: the checks that would fail, and ctx.local_mode
PreflightInputs ==
    [ failed : SUBSET (CriticalChecks \cup OptionalChecks), local_mode : BOOLEAN ]

NoChecks == [ failed |-> {}, local_mode |-> FALSE ]

\* mutant: a failed network check is critical as well
PreflightOutcomeNetworkCritical(c) ==
    IF c.failed \cap CriticalChecks # {} \/ (~c.local_mode /\ "network" \in c.failed)
    THEN "fatal" ELSE "ok"

\* preflight.py:122-129: PreflightError is raised when the list of failed
\* results is not empty; the network check never enters that list
PreflightOutcome(c) ==
    IF c.failed \cap CriticalChecks # {} THEN "fatal" ELSE "ok"

---------------------------------------------------------------------------
(* The concrete steps (installer/steps/*.py).  The project directory and  *)
(* the home directory are abstracted to the set `fs` of the facts the     *)
(* steps test or establish; ctx.config to the set of keys stored in it.   *)

\* facts inside <project>/.claude, copied by BootstrapStep's backup
ClaudeContent ==
    { "nested_rules",        \* rules/standard has a subdirectory holding *.md
      "template",            \* settings.local.template.json exists and is valid JSON
      "settings",            \* settings.local.json exists
      "premium_bin",         \* bin/ccp-premium exists
      "ccp_bin",             \* bin/ccp exists
      "rules_standard",      \* rules/standard exists
      "migration_backup",    \* rules/.standard_backup exists
      "mbk_nested" }         \* rules/.standard_backup holds the nested layout

\* the same facts inside <project>/.claude.backup.<timestamp>
Bk ==
    [ f \in ClaudeContent |->
        CASE f = "nested_rules"     -> "bk_nested_rules"
          [] f = "template"         -> "bk_template"
          [] f = "settings"         -> "bk_settings"
          [] f = "premium_bin"      -> "bk_premium_bin"
          [] f = "ccp_bin"          -> "bk_ccp_bin"
          [] f = "rules_standard"   -> "bk_rules_standard"
          [] f = "migration_backup" -> "bk_migration_backup"
          [] f = "mbk_nested"       -> "bk_mbk_nested" ]

BackupContent == { Bk[f] : f \in ClaudeContent }

\* "claude_dir": <project>/.claude exists; "backup": the backup directory
\* exists; "devcontainer": <project>/.devcontainer is a directory;
\* "alias": a shell configuration file holds the ccp alias
Facts == ClaudeContent \cup BackupContent \cup
         { "claude_dir", "backup", "devcontainer", "alias" }

ConfigKeys == { "is_upgrade", "backup_path", "migration_backup",
                "installed_files", "installed_dependencies",
                "modified_shell_configs" }

\* the fields of ctx no step assigns, and the machine:
\*   in_container     platform_utils.is_in_devcontainer()
\*   non_interactive  ctx.non_interactive
\*   premium_key      ctx.premium_key is set
\*   shell_files      a shell configuration file exists in the home directory
\*   repo             which settings files the .claude tree of the repository
\*                    ships (its rules are in the flat layout)
RepoContent == { "template", "settings" }

Envs ==
    [ project_dir : { "project" }, in_container : BOOLEAN,
      non_interactive : BOOLEAN, premium_key : BOOLEAN, shell_files : BOOLEAN,
      repo : SUBSET RepoContent ]

FreshEnv ==
    [ project_dir |-> "project", in_container |-> FALSE,
      non_interactive |-> FALSE, premium_key |-> FALSE, shell_files |-> TRUE,
      repo |-> { "settings" } ]

\* steps that exist as classes but are not in get_all_steps
ExtraSteps == { "ccp_binary", "prerequisites" }

ConcreteSteps == Range(get_all_steps) \cup ExtraSteps

\* steps whose check body is `return False`
AlwaysRunSteps ==
    { "preflight", "bootstrap", "claude_files", "dependencies", "environment",
      "finalize" }

\* steps whose check inspects the directory, the home directory or ctx
ConditionalSteps ==
    { "devcontainer", "migration", "config_files", "premium", "shell_config" }

\* what the body of check(ctx) tests, per step
CheckCondition(name, f, e) ==
    CASE name = "devcontainer" -> e.in_container \/ "devcontainer" \in f
      [] name = "migration"    -> "nested_rules" \notin f
      [] name = "config_files" -> "settings" \in f
      [] name = "premium"      -> ~e.premium_key \/ "premium_bin" \in f
      [] name = "shell_config" -> "alias" \in f
      [] OTHER                 -> FALSE

\* the values check(ctx) can return ("true" = already done, skip the step)
CheckResults(name, f, e) ==
    CASE name \in AlwaysRunSteps   -> { "false" }
      [] name \in ConditionalSteps ->
            { IF CheckCondition(name, f, e) THEN "true" ELSE "false" }
      [] name = "ccp_binary" ->
            IF "ccp_bin" \in f THEN { "true", "false" } ELSE { "false" }
      [] OTHER -> { "true", "false" }

\* ctx.config after check(ctx): no check body assigns to ctx
CheckConfig(name, cfg) == cfg

\* mutant: a check that creates the directory it looks for
CheckFsCreates(name, f) ==
    IF name = "migration" THEN f \cup { "claude_dir" } ELSE f

\* the directories after check(ctx): the bodies only call exists, is_dir,
\* iterdir, glob and read_text
CheckFs(name, f) == f

\* CcpBinaryStep._version_checked after check(ctx): set on every path but
\* the one that returns True because no target version is known
CheckCaches(name, result, cache) ==
    IF name = "ccp_binary"
    THEN IF result = "false" THEN { TRUE } ELSE { cache, TRUE }
    ELSE { cache }

\* a direct call of a step method, as the unit tests make them
NoCall == [ op |-> "none", name |-> "none", out |-> "none" ]

Call(o, n, r) == [ op |-> o, name |-> n, out |-> r ]

\* the outcome of a step method: the directories and ctx.config it leaves,
\* and how it ends ("ok" = returns, "fatal" = FatalInstallError,
\* "error" = another Exception)
R(f, cfg, o) == [ fs |-> f, config |-> cfg, out |-> o ]

\* bootstrap.py:66-82: .claude copied to .claude.backup.<timestamp>
Snapshot(f) ==
    (f \ BackupContent) \cup { "backup" } \cup { Bk[x] : x \in f \cap ClaudeContent }

\* mutant: the backup is copied back and left where it is
RestoredByCopy(f) ==
    (f \ ClaudeContent) \cup { "claude_dir" } \cup { x \in ClaudeContent : Bk[x] \in f }

\* bootstrap.py:117-119: .claude removed and the backup moved in its place
Restored(f) ==
    (f \ (ClaudeContent \cup BackupContent \cup { "backup" }))
        \cup { "claude_dir" } \cup { x \in ClaudeContent : Bk[x] \in f }

\* migration.py:133-135: rules/standard removed and the backup moved in its place
MigrationRestored(f) ==
    (f \ { "migration_backup", "mbk_nested", "nested_rules" })
        \cup { "rules_standard" }
        \cup (IF "mbk_nested" \in f THEN { "nested_rules" } ELSE {})

\* bootstrap.py:73-75: this outcome of BootstrapStep.run on directory f is
\* the one in which the backup copy was made
BackupMade(f, res) ==
    "claude_dir" \in f /\ res.fs = Snapshot(f) \cup { "rules_standard" }

\* what .claude held before the latest BootstrapStep.run that backed it up
BeforeRun(name, f, res, before) ==
    IF name # "bootstrap" THEN before
    ELSE IF BackupMade(f, res) THEN << f \cap ClaudeContent >> ELSE << >>

\* mutant: .claude is emptied before the repository files are installed
InstallRepoFilesClean(f, e) ==
    (f \ ClaudeContent) \cup e.repo \cup { "claude_dir", "rules_standard" }

\* claude_files.py:213-330: rules/standard is cleared and the repository's
\* files are written over what is there
InstallRepoFiles(f, e) ==
    (f \ { "nested_rules" }) \cup e.repo \cup { "claude_dir", "rules_standard" }

\* what run(ctx) can do, per step
RunResults(name, f, cfg, e) ==
    CASE name = "preflight" ->
            { R(f, cfg, PreflightOutcome(c)) : c \in PreflightInputs }
      [] name = "devcontainer" ->
            IF e.non_interactive \/ e.in_container \/ "devcontainer" \in f
            THEN { R(f, cfg, "ok") }
            ELSE { R(f, cfg, "ok"), R(f \cup { "devcontainer" }, cfg, "ok") }
      [] name = "bootstrap" ->
            IF "claude_dir" \in f
            THEN { R(Snapshot(f) \cup { "rules_standard" },
                     cfg \cup { "backup_path", "is_upgrade" }, "ok"),
                   R(f \cup { "rules_standard" }, cfg \cup { "is_upgrade" }, "ok") }
            ELSE { R(f \cup { "claude_dir", "rules_standard" },
                     cfg \cup { "is_upgrade" }, "ok"),
                   R(f, cfg \cup { "is_upgrade" }, "error") }
      [] name = "migration" ->
            IF "rules_standard" \notin f
            THEN { R(f, cfg, "ok") }
            ELSE LET fresh == "migration_backup" \notin f
                     f1 == IF fresh
                           THEN f \cup { "migration_backup" } \cup
                                (IF "nested_rules" \in f THEN { "mbk_nested" } ELSE {})
                           ELSE f
                     c1 == IF fresh THEN cfg \cup { "migration_backup" } ELSE cfg
                 IN  { R(f1 \ { "nested_rules" }, c1, "ok"), R(f1, c1, "error") }
      [] name = "claude_files" ->
            { R(f, cfg, "ok"),
              R(InstallRepoFiles(f, e), cfg \cup { "installed_files" }, "ok"),
              R(InstallRepoFiles(f, e) \cup (f \cap { "nested_rules" }),
                cfg \cup { "installed_files" }, "ok") }
      [] name = "config_files" ->
            { R(IF "template" \in f THEN f \cup { "settings" } ELSE f, cfg, "ok"),
              R(f, cfg, "error") }
      [] name = "dependencies" ->
            { R(f, cfg \cup { "installed_dependencies" }, "ok") }
      [] name = "premium" ->
            IF ~e.premium_key
            THEN { R(f, cfg, "ok") }
            ELSE { R(f, cfg, "ok"), R(f \cup { "claude_dir", "premium_bin" }, cfg, "ok") }
      [] name = "shell_config" ->
            IF ~e.shell_files \/ "alias" \in f
            THEN { R(f, cfg \ { "modified_shell_configs" }, "ok") }
            ELSE { R(f \cup { "alias" }, cfg \cup { "modified_shell_configs" }, "ok"),
                   R(f, cfg \ { "modified_shell_configs" }, "ok") }
      [] name = "ccp_binary" ->
            { R(f, cfg, "ok"), R(f \cup { "claude_dir", "ccp_bin" }, cfg, "ok") }
      [] OTHER -> { R(f, cfg, "ok") }

\* the rollback a step class inherits when it defines none: a step with no
\* undo of its own does nothing
BaseRollback(f, cfg) == R(f, cfg, "ok")

\* what rollback(ctx) can do, per step; "error" is the OSError that
\* shutil.rmtree, shutil.move or Path.unlink raise outside any try block
RollbackResults(name, f, cfg) ==
    CASE name = "devcontainer" ->
            IF "devcontainer" \in f
            THEN { R(f \ { "devcontainer" }, cfg, "ok"), R(f, cfg, "error") }
            ELSE { R(f, cfg, "ok") }
      [] name = "bootstrap" ->
            IF "backup_path" \in cfg /\ "backup" \in f
            THEN { R(Restored(f), cfg, "ok"), R(f, cfg, "error") }
            ELSE { R(f, cfg, "ok") }
      [] name = "migration" ->
            IF "migration_backup" \in cfg /\ "migration_backup" \in f
            THEN { R(MigrationRestored(f), cfg, "ok"), R(f, cfg, "error") }
            ELSE { R(f, cfg, "ok") }
      [] name = "config_files" ->
            IF "settings" \in f
            THEN { R(f \ { "settings" }, cfg, "ok"), R(f, cfg, "error") }
            ELSE { R(f, cfg, "ok") }
      [] name = "premium" ->
            IF "premium_bin" \in f
            THEN { R(f \ { "premium_bin" }, cfg, "ok"), R(f, cfg, "error") }
            ELSE { R(f, cfg, "ok") }
      [] name = "shell_config" ->
            IF "modified_shell_configs" \in cfg /\ "alias" \in f
            THEN { R(f \ { "alias" }, cfg, "ok"), R(f, cfg, "ok") }
            ELSE { R(f, cfg, "ok") }
      [] name \in { "claude_files", "dependencies" } -> { BaseRollback(f, cfg) }
      [] OTHER -> { R(f, cfg, "ok") }

\* the project directories the installer can be started on: an empty one,
\* one with a bare .claude, one installed by a version with nested rules,
\* one with generated settings, and one a previous run set up completely
InitialProjects ==
    { {},
      { "claude_dir" },
      { "claude_dir", "rules_standard", "nested_rules" },
      { "claude_dir", "rules_standard", "settings" },
      { "claude_dir", "rules_standard", "settings", "devcontainer", "alias" } }

---------------------------------------------------------------------------
(* MigrationStep on the tree under .claude/rules (installer/steps/migration.py) *)

\* a file or directory name is the sequence of the parts that "-" joins;
\* a path is a sequence of names
MdParts == { "x.md", "y.md", "d.md", "root.md" }

HiddenParts == { ".hidden" }

\* the name matches the pattern "*.md"
IsMd(name) == name[Len(name)] \in MdParts

\* item.name.startswith(".")
IsHidden(name) == name[1] \in HiddenParts

Dir(path) == [ path |-> path, kind |-> "dir" ]

File(path) == [ path |-> path, kind |-> "file" ]

\* what rules/standard can hold: a rule category with a rule, a nested
\* directory with a rule, a directory whose own name ends in .md, a file that
\* is no rule, a hidden directory with a rule, a rule at the root, and a root
\* file that carries the name flattening gives core/x.md
Universe ==
    { Dir(<< << "core" >> >>),
      File(<< << "core" >>, << "x.md" >> >>),
      Dir(<< << "core" >>, << "sub" >> >>),
      File(<< << "core" >>, << "sub" >>, << "y.md" >> >>),
      Dir(<< << "core" >>, << "d.md" >> >>),
      File(<< << "core" >>, << "notes.txt" >> >>),
      Dir(<< << ".hidden" >> >>),
      File(<< << ".hidden" >>, << "x.md" >> >>),
      File(<< << "root.md" >> >>),
      File(<< << "core", "x.md" >> >>) }

Parent(path) == SubSeq(path, 1, Len(path) - 1)

\* every entry below the root lies in a directory of the tree
Closed(t) ==
    \A e \in t : Len(e.path) > 1 => Dir(Parent(e.path)) \in t

Trees == { t \in SUBSET Universe : Closed(t) }

\* files a run that was cut short left in rules/.migration_temp
Leftovers == { << "old.md" >> }

NoRules ==
    [ pc |-> "idle", exists |-> FALSE, standard |-> {}, temp |-> {}, backup |-> FALSE,
      first_check |-> "none", out |-> "none", last_check |-> "none" ]

\* migration.py:28-29, 93-94: the subdirectories of rules/standard that count
Categories(t) ==
    { e \in t : e.kind = "dir" /\ Len(e.path) = 1 /\ ~IsHidden(e.path[1]) }

\* item.glob("*.md"): the entries directly in the directory that match
Glob(t, dir) ==
    { e \in t : Len(e.path) = Len(dir.path) + 1 /\ Parent(e.path) = dir.path
                /\ IsMd(e.path[Len(e.path)]) }

\* item.rglob("*.md"): the entries anywhere below the directory that match
RGlob(t, dir) ==
    { e \in t : Len(e.path) > Len(dir.path)
                /\ SubSeq(e.path, 1, Len(dir.path)) = dir.path
                /\ IsMd(e.path[Len(e.path)]) }

\* migration.py:15-34
needs_migration(r) ==
    IF ~r.exists THEN FALSE
    ELSE \E item \in Categories(r.standard) : Glob(r.standard, item) # {}

\* migration.py:65-67
MigrationCheck(r) == IF needs_migration(r) THEN "false" ELSE "true"

RECURSIVE Joined(_)
\* migration.py:97-101: the parts of the path joined by "-" into one name
Joined(path) == IF path = << >> THEN << >> ELSE path[1] \o Joined(Tail(path))

\* migration.py:93-108: what the loop hands to shutil.copy2
Sources(t) ==
    UNION { RGlob(t, item) : item \in Categories(t) }
        \cup { e \in t : e.kind = "file" /\ Len(e.path) = 1 }

\* shutil.copy2 of a directory raises IsADirectoryError
CopyRaises(t) == \E e \in Sources(t) : e.kind = "dir"

\* the names the copies get in rules/.migration_temp
FlatNames(t) == { Joined(e.path) : e \in Sources(t) }

\* mutant: the directory is replaced only when more than one file was copied
ReplacesAfterTwo(t) == Cardinality(Sources(t)) > 1

\* migration.py:111: `if migrated_count > 0`
Replaces(t) == Cardinality(Sources(t)) > 0

\* migration.py:69-123: the states MigrationStep.run can leave behind
MigrationRun(r) ==
    IF ~r.exists
    THEN { [ r EXCEPT !.out = "ok" ] }
    ELSE LET t == r.standard
             failed == { [ r EXCEPT !.out = "error", !.backup = b, !.temp = tmp,
                                    !.exists = x,
                                    !.standard = IF x THEN t ELSE {} ] :
                            b \in { r.backup, TRUE },
                            tmp \in { r.temp \cup n : n \in SUBSET FlatNames(t) },
                            x \in BOOLEAN }
         IN  IF CopyRaises(t) THEN failed
             ELSE failed \cup
                  { [ r EXCEPT !.out = "ok", !.backup = TRUE, !.temp = {},
                        !.standard =
                           IF Replaces(t)
                           THEN { File(<< n >>) : n \in r.temp \cup FlatNames(t) }
                           ELSE t ] }

---------------------------------------------------------------------------
(* ShellConfigStep on the shell configuration files                       *)
(* (installer/steps/shell_config.py)                                      *)

MaxLines == 2

\* the files get_shell_config_files looks for
ShellFiles == { "bashrc", "fish" }

\* a line of a configuration file, by what the step's tests see in it:
\* "marker" holds CCP_ALIAS_MARKER, "alias" starts with "alias ccp",
\* "mention" holds "alias ccp" elsewhere in the line, "blank" is empty
LineKinds == { "text", "blank", "marker", "alias", "mention" }

HasMarker(line) == line = "marker"

StartsWithAlias(line) == line = "alias"

HasAlias(line) == line \in { "alias", "mention" }

\* the file does not exist
NoFile == << "nofile" >>

RECURSIVE SeqsUpTo(_, _)
\* the sequences over S of length 1..n: content.split("\n") is never empty
SeqsUpTo(S, n) ==
    IF n = 1 THEN { << x >> : x \in S }
    ELSE SeqsUpTo(S, n - 1) \cup
         { Append(q, x) : q \in { q \in SeqsUpTo(S, n - 1) : Len(q) = n - 1 }, x \in S }

Contents == SeqsUpTo(LineKinds, MaxLines)

\* shell_config.py:63-68
alias_exists_in_file(c) ==
    c # NoFile /\ \E i \in 1..Len(c) : HasAlias(c[i]) \/ HasMarker(c[i])

\* shell_config.py:17-60, 108-109: "\n" + marker + "\n" + alias + "\n" appended
Appended(c) == c \o << "marker", "alias", "blank" >>

RECURSIVE StripMarkerOnly(_, _)
\* mutant: only the marker line is dropped
StripMarkerOnly(lines, skip_next) ==
    IF lines = << >> THEN << >>
    ELSE IF HasMarker(Head(lines)) THEN StripMarkerOnly(Tail(lines), TRUE)
    ELSE << Head(lines) >> \o StripMarkerOnly(Tail(lines), FALSE)

RECURSIVE Strip(_, _)
\* shell_config.py:140-148
Strip(lines, skip_next) ==
    IF lines = << >> THEN << >>
    ELSE IF HasMarker(Head(lines)) THEN Strip(Tail(lines), TRUE)
    ELSE IF skip_next /\ StartsWithAlias(Head(lines)) THEN Strip(Tail(lines), FALSE)
    ELSE << Head(lines) >> \o Strip(Tail(lines), FALSE)

\* shell_config.py:134-150: what the file reads as after write_text
Rewritten(c) ==
    IF Strip(c, FALSE) = << >> THEN << "blank" >> ELSE Strip(c, FALSE)

\* shell_config.py:93-100: the files run tries to append to
Candidates(files) ==
    { f \in ShellFiles : files[f] # NoFile /\ ~alias_exists_in_file(files[f]) }

\* how an append can end: done, refused by open, or cut short by the disk
AppendOutcomes == { "written", "refused", "partial" }

AfterAppend(c, o) ==
    CASE o = "written" -> Appended(c)
      [] o = "partial" -> c \o << "marker" >>
      [] OTHER         -> c

\* how rewriting a file can end: done, refused by read_text or open, or
\* failed after open truncated the file
RewriteOutcomes == { "rewritten", "refused", "truncated" }

AfterRewrite(c, o) ==
    CASE o = "rewritten" -> Rewritten(c)
      [] o = "truncated" -> << "blank" >>
      [] OTHER           -> c

NoShell ==
    [ pc |-> "idle", files |-> [ f \in ShellFiles |-> NoFile ], modified |-> {},
      appended |-> {}, before_run |-> << >>, before_rollback |-> << >>,
      refused |-> {} ]

---------------------------------------------------------------------------
(* _run_bash_with_retry (installer/steps/dependencies.py) *)

\* how one subprocess.run(..., check=True) ends: exit status 0, another exit
\* status (CalledProcessError), or an OSError because bash or cwd is missing
AttemptOutcomes == { "zero", "nonzero", "oserror" }

NotCalled ==
    [ pc |-> "idle", attempt |-> 0, log |-> << >>, result |-> "none", calls |-> 0,
      results |-> << >> ]

\* mutant: `attempt <= MAX_RETRIES` as the loop condition
RetriesLeftOneMore(attempt) == attempt <= MAX_RETRIES

\* dependencies.py:36: `for attempt in range(MAX_RETRIES)`
RetriesLeft(attempt) == attempt < MAX_RETRIES

---------------------------------------------------------------------------
(* State after construction: a fresh InstallContext, nothing called yet *)

InitContext ==
    /\ steps = << >>
    /\ pc = "init"
    /\ idx = 0
    /\ completed_steps = << >>
    /\ completed_names = {}
    /\ rb_pos = 0
    /\ rb_caller = "none"
    /\ pending = NoError
    /\ raised = NoError
    /\ passes = 0
    /\ check_calls = << >>
    /\ run_calls = << >>
    /\ rollback_calls = << >>
    /\ rollback_failed = {}
    /\ mark_calls = << >>

\* nothing on disk, nothing stored, no step method called yet
InitFresh ==
    /\ config = {}
    /\ step_cache = FALSE
    /\ invocation = 0
    /\ first_goals = {}
    /\ last_call = NoCall
    /\ calls_made = 0
    /\ exit_status = << >>
    /\ claude_before = << >>

Init ==
    /\ InitContext
    /\ InitFresh
    /\ fs = {}
    /\ env = FreshEnv
    /\ checks = NoChecks
    /\ retry = NotCalled
    /\ rules = NoRules
    /\ shell = NoShell

\* cli.py:55-60: entry of rollback_completed_steps(ctx, steps), called by `who`
\* with the completed list `cs`
EnterRollback(who, cs) ==
    /\ pc' = "rollback"
    /\ rb_caller' = who
    /\ completed_names' = Range(cs)
    /\ rb_pos' = 1
    /\ passes' = passes + 1
    /\ rollback_calls' = << >>
    /\ rollback_failed' = {}

\* cli.py:74-81: run_installation is entered and builds its step list
StartInstallation ==
    /\ UNCHANGED concrete_vars
    /\ pc = "init"
    /\ mark_calls = << >>
    /\ steps' = StepList
    /\ idx' = 1
    /\ pc' = "loop"
    /\ UNCHANGED << completed_steps, completed_names, rb_pos, rb_caller, pending,
                    raised, passes, check_calls, run_calls, rollback_calls,
                    rollback_failed, mark_calls >>

\* cli.py:89: step.check(ctx) raises; the call is outside the try block
StepCheckRaises ==
    /\ UNCHANGED concrete_vars
    /\ pc = "loop"
    /\ idx <= Len(steps)
    /\ check_calls' = Append(check_calls, << steps[idx], "raise" >>)
    /\ raised' = Error("Exception", steps[idx], "check")
    /\ pc' = "raised"
    /\ UNCHANGED << steps, idx, completed_steps, completed_names, rb_pos,
                    rb_caller, pending, passes, run_calls, rollback_calls,
                    rollback_failed, mark_calls >>

\* cli.py:89-92: check is true, the step is skipped
StepSkip ==
    /\ UNCHANGED concrete_vars
    /\ pc = "loop"
    /\ idx <= Len(steps)
    /\ \E c \in { "true", "false" } :
         /\ SkipsRun(c)
         /\ check_calls' = Append(check_calls, << steps[idx], c >>)
    /\ idx' = idx + 1
    /\ UNCHANGED << steps, pc, completed_steps, completed_names, rb_pos,
                    rb_caller, pending, raised, passes, run_calls,
                    rollback_calls, rollback_failed, mark_calls >>

\* cli.py:89-96: check is false, run returns, the step is marked completed
StepRunOk ==
    /\ UNCHANGED concrete_vars
    /\ pc = "loop"
    /\ idx <= Len(steps)
    /\ \E c \in { "true", "false" } :
         /\ ~SkipsRun(c)
         /\ check_calls' = Append(check_calls, << steps[idx], c >>)
    /\ run_calls' = Append(run_calls, << steps[idx], "ok" >>)
    /\ completed_steps' = CompletedAfterRun(completed_steps, steps[idx], "ok")
    /\ idx' = idx + 1
    /\ UNCHANGED << steps, pc, completed_names, rb_pos, rb_caller, pending,
                    raised, passes, rollback_calls, rollback_failed, mark_calls >>

\* cli.py:94-98: run raises FatalInstallError, the handler starts the pass
StepRunFatal ==
    /\ UNCHANGED concrete_vars
    /\ pc = "loop"
    /\ idx <= Len(steps)
    /\ \E c \in { "true", "false" } :
         /\ ~SkipsRun(c)
         /\ check_calls' = Append(check_calls, << steps[idx], c >>)
    /\ \E r \in RunOutcomes :
         /\ r # "ok"
         /\ CaughtForRollback(r)
         /\ run_calls' = Append(run_calls, << steps[idx], r >>)
         /\ completed_steps' = CompletedAfterRun(completed_steps, steps[idx], r)
         /\ pending' = Error(KindOf(r), steps[idx], "run")
    /\ IF RollbackOnFatal(completed_steps')
         THEN /\ EnterRollback("run_installation", completed_steps')
              /\ UNCHANGED << idx, raised >>
         ELSE /\ IF PropagatesFatal
                   THEN pc' = "raised" /\ raised' = pending' /\ idx' = idx
                   ELSE pc' = "loop" /\ raised' = raised /\ idx' = idx + 1
              /\ UNCHANGED << completed_names, rb_pos, rb_caller, passes,
                              rollback_calls, rollback_failed >>
    /\ UNCHANGED << steps, mark_calls >>

\* cli.py:94-97: run raises something the handler does not catch
StepRunRaises ==
    /\ UNCHANGED concrete_vars
    /\ pc = "loop"
    /\ idx <= Len(steps)
    /\ \E c \in { "true", "false" } :
         /\ ~SkipsRun(c)
         /\ check_calls' = Append(check_calls, << steps[idx], c >>)
    /\ \E r \in RunOutcomes :
         /\ r # "ok"
         /\ ~CaughtForRollback(r)
         /\ run_calls' = Append(run_calls, << steps[idx], r >>)
         /\ completed_steps' = CompletedAfterRun(completed_steps, steps[idx], r)
         /\ raised' = Error(KindOf(r), steps[idx], "run")
    /\ pc' = "raised"
    /\ UNCHANGED << steps, idx, completed_names, rb_pos, rb_caller, pending,
                    passes, rollback_calls, rollback_failed, mark_calls >>

\* cli.py:83: the for loop is exhausted, run_installation returns
InstallationReturns ==
    /\ UNCHANGED concrete_vars
    /\ pc = "loop"
    /\ idx = Len(steps) + 1
    /\ pc' = "returned"
    /\ UNCHANGED << steps, idx, completed_steps, completed_names, rb_pos,
                    rb_caller, pending, raised, passes, check_calls, run_calls,
                    rollback_calls, rollback_failed, mark_calls >>

\* the step the pass is looking at
RollbackStepName == reversed_steps(steps)[rb_pos]

\* cli.py:63-64: the step's name is not in completed_names
RollbackSkipStep ==
    /\ UNCHANGED concrete_vars
    /\ pc = "rollback"
    /\ rb_pos <= Len(steps)
    /\ ~ShouldRollback(RollbackStepName, completed_names)
    /\ rb_pos' = rb_pos + 1
    /\ UNCHANGED << steps, pc, idx, completed_steps, completed_names, rb_caller,
                    pending, raised, passes, check_calls, run_calls,
                    rollback_calls, rollback_failed, mark_calls >>

\* cli.py:64-68: step.rollback(ctx) returns
RollbackStepOk ==
    /\ UNCHANGED concrete_vars
    /\ pc = "rollback"
    /\ rb_pos <= Len(steps)
    /\ ShouldRollback(RollbackStepName, completed_names)
    /\ rollback_calls' = Append(rollback_calls, RollbackStepName)
    /\ rb_pos' = rb_pos + 1
    /\ completed_steps' = CompletedAfterRollback(completed_steps, RollbackStepName)
    /\ UNCHANGED << steps, pc, idx, completed_names, rb_caller,
                    pending, raised, passes, check_calls, run_calls,
                    rollback_failed, mark_calls >>

\* cli.py:64-71: step.rollback(ctx) raises and `except Exception` catches it
RollbackStepCaught ==
    /\ UNCHANGED concrete_vars
    /\ pc = "rollback"
    /\ rb_pos <= Len(steps)
    /\ ShouldRollback(RollbackStepName, completed_names)
    /\ \E o \in RollbackOutcomes :
         /\ o # "ok"
         /\ CatchesRollbackError(o)
    /\ rollback_calls' = Append(rollback_calls, RollbackStepName)
    /\ rollback_failed' = rollback_failed \cup { RollbackStepName }
    /\ rb_pos' = rb_pos + 1
    /\ completed_steps' = CompletedAfterRollback(completed_steps, RollbackStepName)
    /\ UNCHANGED << steps, pc, idx, completed_names, rb_caller,
                    pending, raised, passes, check_calls, run_calls, mark_calls >>

\* cli.py:64-69: step.rollback(ctx) raises something `except Exception` does
\* not catch; it leaves the pass and, from the handler of run_installation,
\* run_installation itself
RollbackStepPropagates ==
    /\ UNCHANGED concrete_vars
    /\ pc = "rollback"
    /\ rb_pos <= Len(steps)
    /\ ShouldRollback(RollbackStepName, completed_names)
    /\ \E o \in RollbackOutcomes :
         /\ o # "ok"
         /\ ~CatchesRollbackError(o)
         /\ raised' = Error(KindOf(o), RollbackStepName, "rollback")
    /\ rollback_calls' = Append(rollback_calls, RollbackStepName)
    /\ rollback_failed' = rollback_failed \cup { RollbackStepName }
    /\ pc' = "raised"
    /\ UNCHANGED << steps, idx, completed_steps, completed_names, rb_pos,
                    rb_caller, pending, passes, check_calls, run_calls,
                    mark_calls >>

\* cli.py:63 and 99: the pass is over; in run_installation's handler the
\* caught error is re-raised
RollbackReturns ==
    /\ UNCHANGED concrete_vars
    /\ pc = "rollback"
    /\ rb_pos = Len(steps) + 1
    /\ IF rb_caller = "run_installation"
         THEN IF PropagatesFatal
                THEN pc' = "raised" /\ raised' = pending /\ idx' = idx
                ELSE pc' = "loop" /\ raised' = raised /\ idx' = idx + 1
         ELSE pc' = "rolled_back" /\ raised' = raised /\ idx' = idx
    /\ UNCHANGED << steps, completed_steps, completed_names, rb_pos, rb_caller,
                    pending, passes, check_calls, run_calls, rollback_calls,
                    rollback_failed, mark_calls >>

\* the caller of a run_installation that returned invokes
\* rollback_completed_steps(ctx, steps) itself (tests/unit/installer/test_cli.py)
CallerRollback ==
    /\ UNCHANGED concrete_vars
    /\ pc \in { "returned", "rolled_back" }
    /\ passes < MaxPasses
    /\ EnterRollback("caller", completed_steps)
    /\ UNCHANGED << steps, idx, completed_steps, pending, raised, check_calls,
                    run_calls, mark_calls >>

\* cli.py:128-135 and typer: the exit code install() ends with for an
\* exception of this kind; one it does not catch ends the process with 1
ExitCode(kind) ==
    CASE kind = "FatalInstallError" -> EXIT_FAILURE
      [] kind = "KeyboardInterrupt" -> EXIT_CANCELLED
      [] OTHER                      -> EXIT_FAILURE

\* cli.py:128-135: the exception leaving run_installation reaches install()
InstallHandles ==
    /\ pc = "raised"
    /\ rb_caller # "caller"
    /\ exit_status = << >>
    /\ exit_status' = << ExitCode(raised.kind) >>
    /\ UNCHANGED << steps, pc, idx, completed_steps, completed_names, rb_pos,
                    rb_caller, pending, raised, passes, check_calls, run_calls,
                    rollback_calls, rollback_failed, mark_calls, fs, config,
                    env, step_cache, invocation, first_goals, last_call,
                    calls_made, claude_before >>
    /\ UNCHANGED probe_vars

Next ==
    \/ StartInstallation
    \/ StepCheckRaises
    \/ StepSkip
    \/ StepRunOk
    \/ StepRunFatal
    \/ StepRunRaises
    \/ InstallationReturns
    \/ RollbackSkipStep
    \/ RollbackStepOk
    \/ RollbackStepCaught
    \/ RollbackStepPropagates
    \/ RollbackReturns
    \/ CallerRollback
    \/ InstallHandles

Spec == Init /\ [][Next]_vars

---------------------------------------------------------------------------
(* The context on its own: a caller marks steps completed directly         *)
(* (tests/unit/installer/test_context.py)                                  *)

CallMarkCompleted ==
    /\ UNCHANGED concrete_vars
    /\ pc = "init"
    /\ Len(mark_calls) < MaxMarkCalls
    /\ \E name \in StepNames :
         /\ completed_steps' = mark_completed(completed_steps, name)
         /\ mark_calls' = Append(mark_calls, name)
    /\ UNCHANGED << steps, pc, idx, completed_names, rb_pos, rb_caller, pending,
                    raised, passes, check_calls, run_calls, rollback_calls,
                    rollback_failed >>

NextCtx == CallMarkCompleted

SpecCtx == Init /\ [][NextCtx]_vars

---------------------------------------------------------------------------
(* The methods of the concrete steps called directly on a context and a   *)
(* project directory, the way tests/unit/installer/steps/ call them       *)

InitSteps ==
    /\ InitContext
    /\ fs \in InitialProjects
    /\ env \in { e \in Envs : "alias" \in fs => e.shell_files }
    /\ config = {}
    /\ step_cache = FALSE
    /\ invocation = 0
    /\ first_goals = {}
    /\ last_call = NoCall
    /\ calls_made = 0
    /\ exit_status = << >>
    /\ claude_before = << >>
    /\ checks = NoChecks
    /\ retry = NotCalled
    /\ rules = NoRules
    /\ shell = NoShell

orchestrator_vars ==
    << steps, pc, idx, completed_steps, completed_names, rb_pos, rb_caller,
       pending, raised, passes, check_calls, run_calls, rollback_calls,
       rollback_failed, mark_calls >>

\* step.check(ctx)
CallCheck ==
    /\ calls_made < MaxCalls
    /\ \E name \in ConcreteSteps :
         \E result \in CheckResults(name, fs, env) :
           \E cache \in CheckCaches(name, result, step_cache) :
             /\ fs' = CheckFs(name, fs)
             /\ config' = CheckConfig(name, config)
             /\ step_cache' = cache
             /\ last_call' = Call("check", name, result)
    /\ calls_made' = calls_made + 1
    /\ UNCHANGED << orchestrator_vars, env, invocation, first_goals, exit_status, claude_before >>
    /\ UNCHANGED probe_vars

\* step.run(ctx)
CallRun ==
    /\ calls_made < MaxCalls
    /\ \E name \in ConcreteSteps :
         \E res \in RunResults(name, fs, config, env) :
           /\ fs' = res.fs
           /\ config' = res.config
           /\ last_call' = Call("run", name, res.out)
           /\ claude_before' = BeforeRun(name, fs, res, claude_before)
    /\ calls_made' = calls_made + 1
    /\ UNCHANGED << orchestrator_vars, env, step_cache, invocation, first_goals,
                    exit_status >>
    /\ UNCHANGED probe_vars

\* step.rollback(ctx)
CallRollbackMethod ==
    /\ calls_made < MaxCalls
    /\ \E name \in ConcreteSteps :
         \E res \in RollbackResults(name, fs, config) :
           /\ fs' = res.fs
           /\ config' = res.config
           /\ last_call' = Call("rollback", name, res.out)
    /\ calls_made' = calls_made + 1
    /\ UNCHANGED << orchestrator_vars, env, step_cache, invocation, first_goals,
                    exit_status, claude_before >>
    /\ UNCHANGED probe_vars

NextSteps == CallCheck \/ CallRun \/ CallRollbackMethod

SpecSteps == InitSteps /\ [][NextSteps]_vars

---------------------------------------------------------------------------
(* run_installation over the shipped step list, the steps being the       *)
(* concrete ones, invoked up to MaxInvocations times on one directory     *)

InitShipped ==
    /\ InitContext
    /\ fs \in InitialProjects
    /\ env \in { e \in Envs : "alias" \in fs => e.shell_files }
    /\ config = {}
    /\ step_cache = FALSE
    /\ invocation = 0
    /\ first_goals = {}
    /\ last_call = NoCall
    /\ calls_made = 0
    /\ exit_status = << >>
    /\ claude_before = << >>
    /\ checks = NoChecks
    /\ retry = NotCalled
    /\ rules = NoRules
    /\ shell = NoShell

\* the conditional steps whose check would return true on directory f
GoalsMet(f, e) == { n \in ConditionalSteps : CheckCondition(n, f, e) }

\* cli.py:119-128: install() builds a context and calls run_installation
ShippedStart ==
    /\ pc = "init"
    /\ invocation = 0
    /\ steps' = get_all_steps
    /\ idx' = 1
    /\ pc' = "loop"
    /\ invocation' = 1
    /\ UNCHANGED << completed_steps, completed_names, rb_pos, rb_caller, pending,
                    raised, passes, check_calls, run_calls, rollback_calls,
                    rollback_failed, mark_calls, fs, config, env, step_cache,
                    first_goals, last_call, calls_made, exit_status, claude_before >>
    /\ UNCHANGED probe_vars

\* run_installation is called again after it returned: by a new installer
\* process with a fresh context, or by a caller that reuses the context
ShippedRestart ==
    /\ pc = "returned"
    /\ invocation < MaxInvocations
    /\ invocation' = invocation + 1
    /\ first_goals' = IF invocation = 1 THEN GoalsMet(fs, env) ELSE first_goals
    /\ \E same \in BOOLEAN :
         /\ completed_steps' = IF same THEN completed_steps ELSE << >>
         /\ config' = IF same THEN config ELSE {}
    /\ idx' = 1
    /\ pc' = "loop"
    /\ check_calls' = << >>
    /\ run_calls' = << >>
    /\ UNCHANGED << steps, completed_names, rb_pos, rb_caller, pending, raised,
                    passes, rollback_calls, rollback_failed, mark_calls, fs, env,
                    step_cache, last_call, calls_made, exit_status, claude_before >>
    /\ UNCHANGED probe_vars

\* cli.py:89-92 with the step's own check: it is true, the step is skipped
ShippedStepSkip ==
    /\ pc = "loop"
    /\ idx <= Len(steps)
    /\ \E c \in CheckResults(steps[idx], fs, env) :
         /\ SkipsRun(c)
         /\ check_calls' = Append(check_calls, << steps[idx], c >>)
    /\ idx' = idx + 1
    /\ UNCHANGED << steps, pc, completed_steps, completed_names, rb_pos,
                    rb_caller, pending, raised, passes, run_calls,
                    rollback_calls, rollback_failed, mark_calls >>
    /\ UNCHANGED concrete_vars

\* cli.py:89-96 with the step's own check and run: run returns
ShippedStepRunOk ==
    /\ pc = "loop"
    /\ idx <= Len(steps)
    /\ \E c \in CheckResults(steps[idx], fs, env) :
         /\ ~SkipsRun(c)
         /\ check_calls' = Append(check_calls, << steps[idx], c >>)
    /\ \E res \in RunResults(steps[idx], fs, config, env) :
         /\ res.out = "ok"
         /\ fs' = res.fs
         /\ config' = res.config
         /\ claude_before' = BeforeRun(steps[idx], fs, res, claude_before)
    /\ run_calls' = Append(run_calls, << steps[idx], "ok" >>)
    /\ completed_steps' = CompletedAfterRun(completed_steps, steps[idx], "ok")
    /\ idx' = idx + 1
    /\ UNCHANGED << steps, pc, completed_names, rb_pos, rb_caller, pending,
                    raised, passes, rollback_calls, rollback_failed, mark_calls,
                    env, step_cache, invocation, first_goals, last_call,
                    calls_made, exit_status >>
    /\ UNCHANGED probe_vars

\* cli.py:94-98 with the step's own run: it raises FatalInstallError
ShippedStepRunFatal ==
    /\ pc = "loop"
    /\ idx <= Len(steps)
    /\ \E c \in CheckResults(steps[idx], fs, env) :
         /\ ~SkipsRun(c)
         /\ check_calls' = Append(check_calls, << steps[idx], c >>)
    /\ \E res \in RunResults(steps[idx], fs, config, env) :
         /\ res.out # "ok"
         /\ CaughtForRollback(res.out)
         /\ fs' = res.fs
         /\ config' = res.config
         /\ run_calls' = Append(run_calls, << steps[idx], res.out >>)
         /\ completed_steps' = CompletedAfterRun(completed_steps, steps[idx], res.out)
         /\ pending' = Error(KindOf(res.out), steps[idx], "run")
    /\ EnterRollback("run_installation", completed_steps')
    /\ UNCHANGED << steps, idx, raised, mark_calls, env, step_cache, invocation,
                    first_goals, last_call, calls_made, exit_status, claude_before >>
    /\ UNCHANGED probe_vars

\* cli.py:94-97 with the step's own run: it raises another exception
ShippedStepRunRaises ==
    /\ pc = "loop"
    /\ idx <= Len(steps)
    /\ \E c \in CheckResults(steps[idx], fs, env) :
         /\ ~SkipsRun(c)
         /\ check_calls' = Append(check_calls, << steps[idx], c >>)
    /\ \E res \in RunResults(steps[idx], fs, config, env) :
         /\ res.out # "ok"
         /\ ~CaughtForRollback(res.out)
         /\ fs' = res.fs
         /\ config' = res.config
         /\ run_calls' = Append(run_calls, << steps[idx], res.out >>)
         /\ completed_steps' = CompletedAfterRun(completed_steps, steps[idx], res.out)
         /\ raised' = Error(KindOf(res.out), steps[idx], "run")
    /\ pc' = "raised"
    /\ UNCHANGED << steps, idx, completed_names, rb_pos, rb_caller, pending,
                    passes, rollback_calls, rollback_failed, mark_calls, env,
                    step_cache, invocation, first_goals, last_call, calls_made, exit_status, claude_before >>
    /\ UNCHANGED probe_vars

\* cli.py:65-68 with the step's own rollback: it returns
ShippedRollbackStepOk ==
    /\ pc = "rollback"
    /\ rb_pos <= Len(steps)
    /\ ShouldRollback(RollbackStepName, completed_names)
    /\ \E res \in RollbackResults(RollbackStepName, fs, config) :
         /\ res.out = "ok"
         /\ fs' = res.fs
         /\ config' = res.config
    /\ rollback_calls' = Append(rollback_calls, << RollbackStepName, "ok" >>)
    /\ rb_pos' = rb_pos + 1
    /\ completed_steps' = CompletedAfterRollback(completed_steps, RollbackStepName)
    /\ UNCHANGED << steps, pc, idx, completed_names, rb_caller,
                    pending, raised, passes, check_calls, run_calls,
                    rollback_failed, mark_calls, env, step_cache, invocation,
                    first_goals, last_call, calls_made, exit_status, claude_before >>
    /\ UNCHANGED probe_vars

\* cli.py:65-71 with the step's own rollback: it raises and is caught
ShippedRollbackStepCaught ==
    /\ pc = "rollback"
    /\ rb_pos <= Len(steps)
    /\ ShouldRollback(RollbackStepName, completed_names)
    /\ \E res \in RollbackResults(RollbackStepName, fs, config) :
         /\ CatchesRollbackError(res.out)
         /\ fs' = res.fs
         /\ config' = res.config
         /\ rollback_calls' = Append(rollback_calls, << RollbackStepName, res.out >>)
    /\ rollback_failed' = rollback_failed \cup { RollbackStepName }
    /\ rb_pos' = rb_pos + 1
    /\ completed_steps' = CompletedAfterRollback(completed_steps, RollbackStepName)
    /\ UNCHANGED << steps, pc, idx, completed_names, rb_caller,
                    pending, raised, passes, check_calls, run_calls, mark_calls,
                    env, step_cache, invocation, first_goals, last_call,
                    calls_made, exit_status, claude_before >>
    /\ UNCHANGED probe_vars

NextShipped ==
    \/ ShippedStart
    \/ ShippedRestart
    \/ ShippedStepSkip
    \/ ShippedStepRunOk
    \/ ShippedStepRunFatal
    \/ ShippedStepRunRaises
    \/ InstallationReturns
    \/ RollbackSkipStep
    \/ ShippedRollbackStepOk
    \/ ShippedRollbackStepCaught
    \/ RollbackReturns
    \/ InstallHandles

SpecShipped == InitShipped /\ [][NextShipped]_vars

---------------------------------------------------------------------------
(* run_installation on a list that holds preflight alone, the checks of   *)
(* PreflightStep.run answering as the machine decides                     *)

InitPreflight ==
    /\ InitContext
    /\ InitFresh
    /\ fs = {}
    /\ env = FreshEnv
    /\ checks \in PreflightInputs
    /\ retry = NotCalled
    /\ rules = NoRules
    /\ shell = NoShell

\* cli.py:74-81 with get_all_steps patched to the one step
PreflightStart ==
    /\ pc = "init"
    /\ steps' = SubSeq(get_all_steps, 1, 1)
    /\ idx' = 1
    /\ pc' = "loop"
    /\ UNCHANGED << completed_steps, completed_names, rb_pos, rb_caller, pending,
                    raised, passes, check_calls, run_calls, rollback_calls,
                    rollback_failed, mark_calls >>
    /\ UNCHANGED concrete_vars

\* preflight.py:72-129 under cli.py:89-96: no critical check failed
PreflightRunOk ==
    /\ pc = "loop"
    /\ idx <= Len(steps)
    /\ steps[idx] = "preflight"
    /\ PreflightOutcome(checks) = "ok"
    /\ check_calls' = Append(check_calls, << steps[idx], "false" >>)
    /\ run_calls' = Append(run_calls, << steps[idx], "ok" >>)
    /\ completed_steps' = CompletedAfterRun(completed_steps, steps[idx], "ok")
    /\ idx' = idx + 1
    /\ UNCHANGED << steps, pc, completed_names, rb_pos, rb_caller, pending,
                    raised, passes, rollback_calls, rollback_failed, mark_calls >>
    /\ UNCHANGED concrete_vars

\* preflight.py:122-129 under cli.py:94-98: PreflightError is raised
PreflightRunFatal ==
    /\ pc = "loop"
    /\ idx <= Len(steps)
    /\ steps[idx] = "preflight"
    /\ PreflightOutcome(checks) # "ok"
    /\ CaughtForRollback(PreflightOutcome(checks))
    /\ check_calls' = Append(check_calls, << steps[idx], "false" >>)
    /\ run_calls' = Append(run_calls, << steps[idx], PreflightOutcome(checks) >>)
    /\ completed_steps' =
          CompletedAfterRun(completed_steps, steps[idx], PreflightOutcome(checks))
    /\ pending' = Error(KindOf(PreflightOutcome(checks)), steps[idx], "run")
    /\ EnterRollback("run_installation", completed_steps')
    /\ UNCHANGED << steps, idx, raised, mark_calls >>
    /\ UNCHANGED concrete_vars

NextPreflight ==
    \/ PreflightStart
    \/ PreflightRunOk
    \/ PreflightRunFatal
    \/ InstallationReturns
    \/ RollbackSkipStep
    \/ RollbackReturns
    \/ InstallHandles

SpecPreflight == InitPreflight /\ [][NextPreflight]_vars

---------------------------------------------------------------------------
(* run_installation on the shipped list with FinalizeStep patched by a    *)
(* double whose run may raise FatalInstallError: the only way a rollback  *)
(* pass meets steps that completed in the same invocation                 *)

\* cli.py:94-98 with the patched last step: its run raises FatalInstallError
PatchedFinalizeRunFatal ==
    /\ pc = "loop"
    /\ idx <= Len(steps)
    /\ steps[idx] = "finalize"
    /\ CaughtForRollback("fatal")
    /\ check_calls' = Append(check_calls, << steps[idx], "false" >>)
    /\ run_calls' = Append(run_calls, << steps[idx], "fatal" >>)
    /\ completed_steps' = CompletedAfterRun(completed_steps, steps[idx], "fatal")
    /\ pending' = Error(KindOf("fatal"), steps[idx], "run")
    /\ EnterRollback("run_installation", completed_steps')
    /\ UNCHANGED << steps, idx, raised, mark_calls >>
    /\ UNCHANGED concrete_vars

NextPatched ==
    \/ ShippedStart
    \/ ShippedStepSkip
    \/ ShippedStepRunOk
    \/ ShippedStepRunFatal
    \/ ShippedStepRunRaises
    \/ PatchedFinalizeRunFatal
    \/ InstallationReturns
    \/ RollbackSkipStep
    \/ ShippedRollbackStepOk
    \/ ShippedRollbackStepCaught
    \/ RollbackReturns
    \/ InstallHandles

SpecPatched == InitShipped /\ [][NextPatched]_vars

---------------------------------------------------------------------------
(* MigrationStep.check, run and check again on every tree of Trees        *)

InitMigration ==
    /\ InitContext
    /\ InitFresh
    /\ fs = {}
    /\ env = FreshEnv
    /\ checks = NoChecks
    /\ retry = NotCalled
    /\ shell = NoShell
    /\ rules \in { [ NoRules EXCEPT !.exists = TRUE, !.standard = t, !.temp = l,
                                     !.backup = b ] :
                     t \in Trees, l \in SUBSET Leftovers, b \in BOOLEAN }
                 \cup { NoRules }

\* migration.py:65-67
MigrationChecks ==
    /\ rules.pc = "idle"
    /\ rules' = [ rules EXCEPT !.pc = "checked",
                               !.first_check = MigrationCheck(rules) ]
    /\ UNCHANGED << orchestrator_vars, fs, config, env, step_cache, invocation,
                    first_goals, last_call, calls_made, exit_status,
                    claude_before, checks, retry, shell >>

\* migration.py:69-123
MigrationRuns ==
    /\ rules.pc = "checked"
    /\ \E r \in MigrationRun(rules) : rules' = [ r EXCEPT !.pc = "ran" ]
    /\ UNCHANGED << orchestrator_vars, fs, config, env, step_cache, invocation,
                    first_goals, last_call, calls_made, exit_status,
                    claude_before, checks, retry, shell >>

\* migration.py:65-67, called once run is over
MigrationChecksAgain ==
    /\ rules.pc = "ran"
    /\ rules' = [ rules EXCEPT !.pc = "rechecked",
                               !.last_check = MigrationCheck(rules) ]
    /\ UNCHANGED << orchestrator_vars, fs, config, env, step_cache, invocation,
                    first_goals, last_call, calls_made, exit_status,
                    claude_before, checks, retry, shell >>

NextMigration == MigrationChecks \/ MigrationRuns \/ MigrationChecksAgain

SpecMigration == InitMigration /\ [][NextMigration]_vars

---------------------------------------------------------------------------
(* ShellConfigStep.run and then rollback on one context                   *)

InitShell ==
    /\ InitContext
    /\ InitFresh
    /\ fs = {}
    /\ env = FreshEnv
    /\ checks = NoChecks
    /\ retry = NotCalled
    /\ rules = NoRules
    /\ shell \in { [ NoShell EXCEPT !.files = fl ] :
                     fl \in [ ShellFiles -> Contents \cup { NoFile } ] }

\* shell_config.py:84-117
ShellRun ==
    /\ shell.pc = "idle"
    /\ \E o \in [ Candidates(shell.files) -> AppendOutcomes ] :
         LET done == { f \in Candidates(shell.files) : o[f] = "written" }
         IN  shell' =
                [ shell EXCEPT
                    !.pc = "ran",
                    !.before_run = shell.files,
                    !.files = [ f \in ShellFiles |->
                                  IF f \in Candidates(shell.files)
                                  THEN AfterAppend(shell.files[f], o[f])
                                  ELSE shell.files[f] ],
                    !.modified = done,
                    !.appended = done ]
    /\ UNCHANGED << orchestrator_vars, fs, config, env, step_cache, invocation,
                    first_goals, last_call, calls_made, exit_status,
                    claude_before, checks, retry, rules >>

\* shell_config.py:124-152
ShellRollback ==
    /\ shell.pc = "ran"
    /\ LET todo == { f \in shell.modified : shell.files[f] # NoFile }
       IN  \E o \in [ todo -> RewriteOutcomes ] :
             shell' =
                [ shell EXCEPT
                    !.pc = "rolled_back",
                    !.before_rollback = shell.files,
                    !.files = [ f \in ShellFiles |->
                                  IF f \in todo
                                  THEN AfterRewrite(shell.files[f], o[f])
                                  ELSE shell.files[f] ],
                    !.refused = { f \in todo : o[f] = "refused" } ]
    /\ UNCHANGED << orchestrator_vars, fs, config, env, step_cache, invocation,
                    first_goals, last_call, calls_made, exit_status,
                    claude_before, checks, retry, rules >>

NextShell == ShellRun \/ ShellRollback

SpecShell == InitShell /\ [][NextShell]_vars

---------------------------------------------------------------------------
(* _run_bash_with_retry called up to MaxRetryCalls times, each attempt    *)
(* ending as the command decides                                          *)

\* dependencies.py:34: the function is entered
RetryCall ==
    /\ retry.pc # "loop"
    /\ retry.calls < MaxRetryCalls
    /\ retry' = [ pc |-> "loop", attempt |-> 0, log |-> << >>, result |-> "none",
                  calls |-> retry.calls + 1, results |-> retry.results ]
    /\ UNCHANGED << orchestrator_vars, fs, config, env, step_cache, invocation,
                    first_goals, last_call, calls_made, exit_status,
                    claude_before, checks, rules, shell >>

\* dependencies.py:36-46: one pass of the loop body
RetryAttempt ==
    /\ retry.pc = "loop"
    /\ RetriesLeft(retry.attempt)
    /\ \E o \in AttemptOutcomes :
         retry' =
            CASE o = "zero" ->
                    [ retry EXCEPT !.log = Append(@, o), !.pc = "returned",
                                   !.result = "True",
                                   !.results = Append(@, "True") ]
              [] o = "nonzero" ->
                    [ retry EXCEPT !.log = Append(@, o), !.attempt = @ + 1 ]
              [] OTHER ->
                    [ retry EXCEPT !.log = Append(@, o), !.pc = "raised",
                                   !.results = Append(@, "OSError") ]
    /\ UNCHANGED << orchestrator_vars, fs, config, env, step_cache, invocation,
                    first_goals, last_call, calls_made, exit_status,
                    claude_before, checks, rules, shell >>

\* dependencies.py:47: the loop is exhausted
RetryExhausted ==
    /\ retry.pc = "loop"
    /\ ~RetriesLeft(retry.attempt)
    /\ retry' = [ retry EXCEPT !.pc = "returned", !.result = "False",
                               !.results = Append(@, "False") ]
    /\ UNCHANGED << orchestrator_vars, fs, config, env, step_cache, invocation,
                    first_goals, last_call, calls_made, exit_status,
                    claude_before, checks, rules, shell >>

NextRetry == RetryCall \/ RetryAttempt \/ RetryExhausted

\* every subprocess the function starts comes to an end
SpecRetry ==
    /\ Init
    /\ [][NextRetry]_vars
    /\ WF_vars(RetryAttempt)
    /\ WF_vars(RetryExhausted)

---------------------------------------------------------------------------
(* What the histories say *)

\* names of the steps whose check returned true
CheckedTrue == { check_calls[i][1] : i \in { j \in 1..Len(check_calls) : check_calls[j][2] = "true" } }

CheckedNames == { check_calls[i][1] : i \in 1..Len(check_calls) }

RunNames == { run_calls[i][1] : i \in 1..Len(run_calls) }

NameOf(call) == call[1]

ReturnedNormally(call) == call[2] = "ok"

\* names of the steps whose run returned normally, in execution order
ExecutedOk ==
    LET ok == SelectSeq(run_calls, ReturnedNormally)
    IN  [ i \in 1..Len(ok) |-> NameOf(ok[i]) ]

\* a step's run raised FatalInstallError in this invocation
FatalRaised == pending # NoError

FailedStep == pending.step

\* run_installation has re-raised the caught FatalInstallError (cli.py:99)
FatalDelivered == pc = "raised" /\ raised.kind = "FatalInstallError"

\* the current rollback pass ran to the end of reversed(steps)
PassReturned == pc = "rolled_back" \/ (FatalDelivered /\ passes > 0)

\* position of a step of the list
StepIndex(name) == IndexOf(steps, name)

---------------------------------------------------------------------------
(* Claims *)

\* C1: a step whose check(ctx) returned true never has its run called in this
\* invocation and its name is not added to ctx.completed_steps; the loop has
\* moved on past it.
C1_SkippedStepNeverRuns ==
    \A name \in CheckedTrue :
        /\ name \notin RunNames
        /\ ~is_completed(completed_steps, name)
        /\ StepIndex(name) < idx

C1_Witness ==
    /\ pc = "returned"
    /\ CheckedTrue # {}
    /\ \E name \in CheckedTrue : \E later \in RunNames :
           StepIndex(name) < StepIndex(later)

\* C2: once a step's run has raised FatalInstallError, no step ordered after
\* it in the list ever has check or run called: the fatal run is the last run
\* call and no check or run call names a later step.
C2_FatalShortCircuit ==
    \A i \in 1..Len(run_calls) :
        run_calls[i][2] = "fatal" =>
            /\ i = Len(run_calls)
            /\ \A name \in CheckedNames \cup RunNames :
                   StepIndex(name) <= StepIndex(run_calls[i][1])

C2_Witness ==
    /\ FatalDelivered
    /\ StepIndex(FailedStep) < Len(steps)
    /\ Len(check_calls) = StepIndex(FailedStep)

\* C3 as stated: with A completed and B's run raising FatalInstallError, the
\* pass invokes rollback on A and on B and on no other step.
C3_RollbackIncludesFailedStep ==
    (FatalDelivered /\ completed_steps # << >>) =>
        Range(rollback_calls) = Range(completed_steps) \cup { FailedStep }

\* C3 as amended: with A completed and B's run raising FatalInstallError, the
\* pass invokes rollback on the completed steps only (A): never on B, which
\* was not marked completed, and never on a step after B; the completed step
\* nearest to B is always rolled back, and all of them once the pass is over.
C3_RollbackOnlyCompleted ==
    FatalRaised =>
        /\ Range(rollback_calls) \subseteq Range(completed_steps)
        /\ FailedStep \notin Range(rollback_calls)
        /\ \A name \in Range(rollback_calls) : StepIndex(name) < StepIndex(FailedStep)
        /\ (pc = "raised" /\ completed_steps # << >>) => rollback_calls # << >>
        /\ FatalDelivered => Range(rollback_calls) = Range(completed_steps)

C3_Witness ==
    /\ FatalDelivered
    /\ completed_steps # << >>
    /\ StepIndex(FailedStep) < Len(steps)
    /\ Range(rollback_calls) = Range(completed_steps)

\* C4: a step whose run raises FatalInstallError is never added to
\* ctx.completed_steps and its rollback is never called; when run_installation
\* raises that error every step completed before it has had rollback called
\* exactly once, in reverse order of completion.
C4_FailedStepNotRolledBack ==
    FatalRaised =>
        /\ ~is_completed(completed_steps, FailedStep)
        /\ FailedStep \notin Range(rollback_calls)
        /\ \A name \in StepNames : Count(rollback_calls, name) <= 1
        /\ FatalDelivered => rollback_calls = Reverse(ExecutedOk)

C4_Witness ==
    /\ FatalDelivered
    /\ StepIndex(FailedStep) = 3
    /\ Len(ExecutedOk) = 2
    /\ rollback_calls = << ExecutedOk[2], ExecutedOk[1] >>

\* C5: the rollback calls of a pass occur in the exact reverse of the order in
\* which the completed steps were executed: at any moment they are the leading
\* part of sk, ..., s1, and all of it when the pass returns.
C5_RollbackReverseOrder ==
    /\ IsPrefix(rollback_calls, Reverse(ExecutedOk))
    /\ PassReturned => rollback_calls = Reverse(ExecutedOk)

C5_Witness ==
    /\ pc = "rolled_back"
    /\ Len(ExecutedOk) >= 3
    /\ rollback_calls = Reverse(ExecutedOk)

\* C6: a rollback that raises an exception (an Exception, what the pass
\* catches) never ends the pass: no such error leaves it, every completed
\* step the pass has gone by has had exactly one rollback call, and when the
\* pass returns every completed step has had exactly one, whichever of them
\* failed.
C6_RollbackIsolation ==
    /\ raised.op = "rollback" => raised.kind \notin { "Exception", "FatalInstallError" }
    /\ \A name \in StepNames : Count(rollback_calls, name) <= 1
    /\ rollback_failed \subseteq Range(rollback_calls)
    /\ pc = "rollback" =>
          \A i \in 1..(rb_pos - 1) :
              is_completed(completed_steps, Reverse(steps)[i]) =>
                  Count(rollback_calls, Reverse(steps)[i]) = 1
    /\ PassReturned =>
          \A name \in Range(completed_steps) : Count(rollback_calls, name) = 1

C6_Witness ==
    /\ PassReturned
    /\ \E failed \in rollback_failed : \E name \in Range(rollback_calls) :
           /\ StepIndex(name) < StepIndex(failed)
           /\ name \notin rollback_failed

\* C7: the FatalInstallError run_installation raises is the one the step's run
\* raised, it is raised only after the pass has gone through the whole list,
\* and an error raised by a step's rollback during the pass never takes its
\* place.
C7_OriginalErrorReRaised ==
    /\ FatalDelivered =>
          /\ raised = pending
          /\ raised.op = "run"
          /\ run_calls[Len(run_calls)] = << raised.step, "fatal" >>
          /\ passes = 1
          /\ rb_pos = Len(steps) + 1
    /\ (FatalRaised /\ pc = "raised") =>
          raised.kind \in { "FatalInstallError", "KeyboardInterrupt" }
    /\ (FatalRaised /\ pc = "raised" /\ raised.op = "rollback") =>
          raised.kind = "KeyboardInterrupt"

C7_Witness ==
    /\ FatalDelivered
    /\ rollback_failed # {}
    /\ raised = pending

\* C8: in an invocation started with an empty completed list,
\* ctx.completed_steps is at every point the sequence of names of the steps
\* whose run has returned normally, in execution order, and is_completed is
\* true of each of them.
C8_CompletedIsExecutedOk ==
    /\ completed_steps = ExecutedOk
    /\ \A i \in 1..Len(run_calls) :
          ReturnedNormally(run_calls[i]) =>
              is_completed(completed_steps, NameOf(run_calls[i]))

C8_Witness ==
    /\ pc = "loop"
    /\ Len(ExecutedOk) >= 2
    /\ CheckedTrue # {}
    /\ is_completed(completed_steps, ExecutedOk[Len(ExecutedOk)])

\* C10 as stated: run_installation starts a rollback pass only when
\* ctx.needs_rollback() is true.
C10_PassOnlyWhenNeeded ==
    (rb_caller = "run_installation" /\ passes > 0) =>
        needs_rollback(completed_steps)

\* C10 as amended: every FatalInstallError raised by a step's run starts a
\* rollback pass, whether or not ctx.needs_rollback() is true; with an empty
\* completed list the pass goes through the step list and calls no rollback.
C10_PassAlwaysStarted ==
    /\ FatalRaised => (passes = 1 /\ rb_caller = "run_installation")
    /\ FatalDelivered => rb_pos = Len(steps) + 1
    /\ (passes > 0 /\ ~needs_rollback(completed_steps)) => rollback_calls = << >>

C10_Witness ==
    /\ pc = "rollback"
    /\ rb_caller = "run_installation"
    /\ ~needs_rollback(completed_steps)
    /\ rb_pos > 1

---------------------------------------------------------------------------
(* Claims about the context on its own (SpecCtx) *)

RECURSIVE FirstOccurrences(_)
\* the names of a call sequence, each kept at its first occurrence
FirstOccurrences(s) ==
    IF s = << >> THEN << >>
    ELSE LET front == FirstOccurrences(SubSeq(s, 1, Len(s) - 1))
             last  == s[Len(s)]
         IN  IF last \in Range(front) THEN front ELSE Append(front, last)

\* C9: after any sequence of mark_completed calls ctx.completed_steps holds
\* each name at most once: it is the sequence of first occurrences of the
\* names passed, so a call with a name already present changed nothing.
C9_MarkCompletedIdempotent ==
    /\ NoDuplicates(completed_steps)
    /\ completed_steps = FirstOccurrences(mark_calls)

C9_Witness ==
    /\ Len(mark_calls) = MaxMarkCalls
    /\ \E name \in StepNames :
           /\ Count(mark_calls, name) >= 2
           /\ Count(completed_steps, name) = 1
    /\ Len(completed_steps) >= 2

---------------------------------------------------------------------------
(* Claims C11 - C20 *)

\* run_installation was left by an exception of a step's run that is not a
\* FatalInstallError
NonFatalFromRun ==
    /\ pc = "raised"
    /\ raised.op = "run"
    /\ raised.kind # "FatalInstallError"

\* C11: when a step's run raises an exception that is not a FatalInstallError,
\* run_installation propagates it without a rollback pass: no rollback is
\* called, the raising step is not marked completed, no later step is checked
\* or run, and the earlier completed steps stay completed.
C11_NonFatalNoRollback ==
    NonFatalFromRun =>
        /\ raised.kind \in { "Exception", "KeyboardInterrupt" }
        /\ passes = 0
        /\ rollback_calls = << >>
        /\ pending = NoError
        /\ NameOf(run_calls[Len(run_calls)]) = raised.step
        /\ ~ReturnedNormally(run_calls[Len(run_calls)])
        /\ ~is_completed(completed_steps, raised.step)
        /\ \A name \in CheckedNames \cup RunNames :
               StepIndex(name) <= StepIndex(raised.step)
        /\ completed_steps = ExecutedOk

C11_Witness ==
    /\ NonFatalFromRun
    /\ raised.kind = "Exception"
    /\ Len(completed_steps) >= 2
    /\ StepIndex(raised.step) < Len(steps)

\* every step of the list was skipped (check true) or run and marked completed
AllSkippedOrCompleted ==
    \A i \in 1..Len(steps) :
        \/ steps[i] \in CheckedTrue
        \/ /\ << steps[i], "ok" >> \in Range(run_calls)
           /\ is_completed(completed_steps, steps[i])

NeverReached == Range(steps) \ CheckedNames

\* C18: rollback is called only on steps whose name is in
\* ctx.completed_steps: never on a step skipped because its check was true,
\* never on the step whose run failed, never on a step the loop did not reach.
C18_OnlyCompletedRolledBack ==
    \A name \in Range(rollback_calls) :
        /\ name \in completed_names
        /\ is_completed(completed_steps, name)
        /\ name \notin CheckedTrue
        /\ name \notin NeverReached
        /\ FatalRaised => name # FailedStep

C18_Witness ==
    /\ FatalDelivered
    /\ rollback_calls # << >>
    /\ CheckedTrue # {}
    /\ NeverReached # {}

CallNames(calls) == [ i \in 1..Len(calls) |-> NameOf(calls[i]) ]

\* C19: within one invocation each step has check called at most once, run
\* called at most once and rollback called at most once (per pass); the names
\* of the step list are pairwise distinct.
C19_AtMostOnceEach ==
    /\ NoDuplicates(get_all_steps)
    /\ NoDuplicates(steps)
    /\ NoDuplicates(CallNames(check_calls))
    /\ NoDuplicates(CallNames(run_calls))
    /\ NoDuplicates(rollback_calls)
    /\ RunNames \subseteq CheckedNames

C19_Witness ==
    /\ FatalDelivered
    /\ Len(check_calls) = Len(steps)
    /\ Len(run_calls) >= 3
    /\ Len(rollback_calls) >= 2

\* C20 (SpecCtx): needs_rollback() is false on a fresh context and true after
\* any mark_completed call: it is true exactly when the list is non-empty.
C20_NeedsRollbackIffMarked ==
    /\ needs_rollback(completed_steps) <=> (mark_calls # << >>)
    /\ needs_rollback(completed_steps) <=> (completed_steps # << >>)

C20_Witness ==
    /\ Len(mark_calls) = 1
    /\ needs_rollback(completed_steps)

\* C16: for every step, a call of check(ctx) leaves ctx.completed_steps,
\* ctx.config, the target directory path and the contents of the filesystem
\* as they were, whatever it returns (only CcpBinaryStep's own cache changes)
C16_CheckLeavesStateUnchanged ==
    [][ (calls_made' # calls_made /\ last_call'.op = "check")
            => /\ completed_steps' = completed_steps
               /\ config' = config
               /\ env'.project_dir = env.project_dir
               /\ fs' = fs ]_vars

\* CcpBinaryStep.check has run on a directory that holds the binary, after
\* an earlier call put keys into ctx.config, and has set the step's cache
C16_Witness ==
    /\ last_call.op = "check"
    /\ last_call.name = "ccp_binary"
    /\ step_cache
    /\ "ccp_bin" \in fs
    /\ calls_made = 2

\* C17: no call of a concrete step's rollback(ctx) ends in an exception:
\* every call returns normally
C17_RollbackNeverRaises ==
    last_call.op = "rollback" => last_call.out = "ok"

CheckedFalse(call) == call[2] = "false"

\* C13: get_all_steps is a fixed total order with preflight first, finalize
\* last, git_setup before dependencies, claude_files before config_files and
\* shell_config after dependencies and environment; run_installation calls
\* check on the steps in exactly this order and calls run on exactly the
\* steps whose check was false, each before the next step's check.
C13_FixedOrder ==
    /\ NoDuplicates(get_all_steps)
    /\ get_all_steps[1] = "preflight"
    /\ get_all_steps[Len(get_all_steps)] = "finalize"
    /\ IndexOf(get_all_steps, "git_setup") < IndexOf(get_all_steps, "dependencies")
    /\ IndexOf(get_all_steps, "claude_files") < IndexOf(get_all_steps, "config_files")
    /\ IndexOf(get_all_steps, "dependencies") < IndexOf(get_all_steps, "shell_config")
    /\ IndexOf(get_all_steps, "environment") < IndexOf(get_all_steps, "shell_config")
    /\ pc # "init" =>
         /\ steps = get_all_steps
         /\ IsPrefix(CallNames(check_calls), steps)
         /\ CallNames(run_calls) = CallNames(SelectSeq(check_calls, CheckedFalse))
         /\ pc = "loop" => Len(check_calls) = idx - 1
         /\ pc = "returned" => Len(check_calls) = Len(steps)

\* a first invocation went through the whole list, skipping some steps
\* and running others
C13_Witness ==
    /\ pc = "returned"
    /\ invocation = 1
    /\ CallNames(check_calls) = get_all_steps
    /\ "config_files" \in CheckedTrue
    /\ "migration" \in RunNames
    /\ Len(run_calls) < Len(check_calls)

\* C14: a step whose check always returns false has its run called exactly
\* once in every invocation of run_installation that reaches it, also when
\* its name is already in ctx.completed_steps from an earlier invocation.
C14_AlwaysRunStepsRunEveryTime ==
    /\ \A n \in AlwaysRunSteps :
         n \in CheckedNames =>
            /\ Count(CallNames(check_calls), n) = 1
            /\ n \notin CheckedTrue
            /\ Count(CallNames(run_calls), n) = 1
    /\ pc = "returned" => AlwaysRunSteps \subseteq RunNames

\* a second invocation on the same context: preflight has been run again
\* although the completed list still holds every always-run step once
C14_Witness ==
    /\ invocation = 2
    /\ pc = "loop"
    /\ idx = 2
    /\ AlwaysRunSteps \subseteq Range(completed_steps)
    /\ NoDuplicates(completed_steps)
    /\ CallNames(run_calls) = << "preflight" >>

\* C15 as stated: in a second run on the directory the first run left,
\* check is true for devcontainer, migration, config_files, premium and
\* shell_config, and none of them is run
C15_SecondRunSkipsAll ==
    invocation = 2 =>
        \A n \in ConditionalSteps :
            n \in CheckedNames => (n \in CheckedTrue /\ n \notin RunNames)

\* C15 amended: in a second run on the directory the first run left, check
\* is true for each of these steps whose check condition held when the first
\* run returned, and its run is not called
C15_SecondRunSkipsEstablished ==
    invocation >= 2 =>
        \A n \in first_goals :
            n \in CheckedNames => (n \in CheckedTrue /\ n \notin RunNames)

\* the second run has returned: config_files, whose settings file the first
\* run left, was skipped; devcontainer, which the first run did not create,
\* was run again
C15_Witness ==
    /\ invocation = 2
    /\ pc = "returned"
    /\ "config_files" \in first_goals
    /\ "config_files" \in CheckedTrue
    /\ "devcontainer" \notin first_goals
    /\ "devcontainer" \in RunNames

---------------------------------------------------------------------------
(* Claims C21 - C30 *)

\* C23: a KeyboardInterrupt raised by a step's run leaves run_installation
\* with no rollback pass started and the step not marked completed, what the
\* earlier steps completed stays, and install() exits with code 130; a
\* KeyboardInterrupt raised by a step's rollback ends the pass, so the
\* completed steps still to come in the pass are not rolled back.
C23_InterruptNoRollback ==
    /\ (pc = "raised" /\ raised.kind = "KeyboardInterrupt" /\ raised.op = "run") =>
          /\ passes = 0
          /\ rollback_calls = << >>
          /\ raised.step \notin Range(completed_steps)
          /\ completed_steps = ExecutedOk
          /\ exit_status \in { << >>, << EXIT_CANCELLED >> }
    /\ (pc = "raised" /\ raised.kind = "KeyboardInterrupt" /\ raised.op = "rollback") =>
          /\ \A n \in completed_names :
               StepIndex(n) < StepIndex(raised.step) => n \notin Range(rollback_calls)
          /\ rb_caller = "run_installation" =>
               exit_status \in { << >>, << EXIT_CANCELLED >> }

\* install() has exited with 130 after the run of a step was interrupted
\* while earlier steps were completed
C23_Witness ==
    /\ pc = "raised"
    /\ raised.kind = "KeyboardInterrupt"
    /\ raised.op = "run"
    /\ Len(completed_steps) >= 2
    /\ exit_status = << EXIT_CANCELLED >>

\* C24: rollback_completed_steps leaves ctx.completed_steps as it was, so
\* after a pass the rolled-back steps are still listed, needs_rollback() is
\* still true, and a further pass calls the rollback of every completed step
\* again.
C24_PassKeepsCompletedList ==
    [][ /\ pc = "rollback" => completed_steps' = completed_steps
        /\ (pc = "rollback" /\ pc' = "rolled_back") =>
             /\ Range(rollback_calls') = Range(completed_steps')
             /\ rollback_calls' # << >> => needs_rollback(completed_steps') ]_vars

\* the caller's second pass is over and has again called the rollback of
\* each of the completed steps
C24_Witness ==
    /\ pc = "rolled_back"
    /\ passes = 2
    /\ Len(completed_steps) >= 2
    /\ Range(rollback_calls) = Range(completed_steps)

\* C22: in the shipped pipeline only preflight's run raises
\* FatalInstallError, and it is the first step: when run_installation starts
\* the rollback pass no step has completed in this invocation, so with the
\* fresh context install() builds the completed list is empty and no step's
\* rollback is called.
C22_OnlyPreflightIsFatal ==
    /\ pending # NoError =>
          /\ pending.kind = "FatalInstallError"
          /\ pending.step = "preflight"
          /\ ExecutedOk = << >>
    /\ (passes > 0 /\ invocation = 1) =>
          /\ completed_steps = << >>
          /\ completed_names = {}
          /\ rollback_calls = << >>

\* preflight failed in install(): the pass went through the list without
\* calling a rollback, the error was re-raised and install() exited with 1
C22_Witness ==
    /\ pc = "raised"
    /\ invocation = 1
    /\ passes = 1
    /\ rb_pos = Len(steps) + 1
    /\ pending.step = "preflight"
    /\ exit_status = << EXIT_FAILURE >>

\* a rollback pass has gone through the whole list on a context whose
\* completed list holds bootstrap and whose latest BootstrapStep.run backed
\* up an existing .claude and recorded backup_path
BootstrapPassOver ==
    /\ passes > 0
    /\ pc = "raised"
    /\ rb_pos = Len(steps) + 1
    /\ "bootstrap" \in completed_names
    /\ "backup_path" \in config
    /\ claude_before # << >>

\* the rollbacks of the pass were called in reverse list order
LaterStepsFirst ==
    \A i, j \in 1..Len(rollback_calls) :
        i < j => StepIndex(NameOf(rollback_calls[i])) > StepIndex(NameOf(rollback_calls[j]))

C29_PreflightRaisesOnCritical ==
    run_calls # << >> =>
        LET raises == run_calls[1][2] = "fatal"
        IN  /\ raises <=> \/ "disk" \in checks.failed
                          \/ "permissions" \in checks.failed
                          \/ "tools" \in checks.failed
                          \/ "python" \in checks.failed
            /\ checks.failed = { "network" } => ~raises
            /\ raises => /\ ~is_completed(completed_steps, "preflight")
                         /\ pending.kind = "FatalInstallError"
            /\ ~raises => is_completed(completed_steps, "preflight")

\* the tools check failed on a machine that is online: install() has exited
\* with 1 and preflight is not in the completed list
C29_Witness ==
    /\ checks = [ failed |-> { "tools" }, local_mode |-> FALSE ]
    /\ pc = "raised"
    /\ pending.step = "preflight"
    /\ completed_steps = << >>
    /\ exit_status = << EXIT_FAILURE >>

\* what a call that is over has established
RetrySafe ==
    /\ Len(retry.log) <= MAX_RETRIES
    /\ \A i \in 1..Len(retry.log) : retry.log[i] = "zero" => i = Len(retry.log)
    /\ retry.pc = "returned" =>
         /\ retry.result = "True" <=> "zero" \in Range(retry.log)
         /\ retry.result = "False" =>
              /\ Len(retry.log) = MAX_RETRIES
              /\ Range(retry.log) = { "nonzero" }

\* C30: _run_bash_with_retry runs the command at most MAX_RETRIES times,
\* makes no attempt after one that exits with status 0, returns True exactly
\* when an attempt succeeded, returns False after the third failed attempt,
\* and every call comes to an end.
C30_RetryBoundedAndEnds ==
    /\ []RetrySafe
    /\ (retry.pc = "loop") ~> (retry.pc # "loop")

\* a call has returned False after three attempts that all failed
C30_Witness ==
    /\ retry.pc = "returned"
    /\ retry.result = "False"
    /\ retry.log = << "nonzero", "nonzero", "nonzero" >>

\* this step of the rollback pass is a call of the named step's rollback
RollbackActs(name) ==
    /\ pc = "rollback"
    /\ Len(rollback_calls') = Len(rollback_calls) + 1
    /\ rollback_calls'[Len(rollback_calls')][1] = name

\* the named step's check returned c in this invocation
Checked(name, c) == << name, c >> \in Range(check_calls)

\* ConfigFilesStep.rollback is called only for a step whose check found no
\* settings.local.json and whose run returned
ConfigRollbackOnlyAfterCheckFalse ==
    RollbackActs("config_files") =>
        /\ Checked("config_files", "false")
        /\ ~Checked("config_files", "true")
        /\ << "config_files", "ok" >> \in Range(run_calls)

C26_RunThenCheckTrue ==
    (rules.pc \in { "ran", "rechecked" } /\ rules.first_check = "false"
        /\ rules.out = "ok") =>
        /\ ~needs_migration(rules)
        /\ rules.exists
        /\ \A e \in rules.standard : e.kind = "file" /\ Len(e.path) = 1
        /\ rules.pc = "rechecked" => rules.last_check = "true"

\* core/x.md and core/sub/y.md were flattened next to root.md and the
\* second check returned true
C26_Witness ==
    /\ rules.pc = "rechecked"
    /\ rules.first_check = "false"
    /\ rules.out = "ok"
    /\ rules.last_check = "true"
    /\ File(<< << "core", "sub", "y.md" >> >>) \in rules.standard
    /\ File(<< << "root.md" >> >>) \in rules.standard

\* rollback wrote to no file outside ctx.config["modified_shell_configs"]
RollbackTouchesOnlyModified ==
    \A f \in ShellFiles \ shell.modified :
        shell.files[f] = shell.before_rollback[f]

\* C27 as stated: after run and then rollback on the same context no file
\* run appended the alias to holds the marker line or the alias line, and
\* rollback leaves every file outside modified_shell_configs as it was.
C27_AliasGoneAfterRollback ==
    shell.pc = "rolled_back" =>
        /\ \A f \in shell.appended : ~alias_exists_in_file(shell.files[f])
        /\ RollbackTouchesOnlyModified

\* C27, amended: after run and then rollback on the same context no file
\* run appended the alias to, and that rollback could read and open for
\* writing, holds the marker line or the alias line; a file rollback could
\* not read or open keeps the alias block; and rollback leaves every file
\* outside modified_shell_configs as it was.
C27_AliasGoneUnlessRefused ==
    shell.pc = "rolled_back" =>
        /\ \A f \in shell.appended \ shell.refused :
              ~alias_exists_in_file(shell.files[f])
        /\ \A f \in shell.refused :
              shell.files[f] = Appended(shell.before_run[f])
        /\ RollbackTouchesOnlyModified

\* run appended the alias to .bashrc and left config.fish, which had it,
\* alone; rollback took the block out of .bashrc and did not touch config.fish
C27_Witness ==
    /\ shell.pc = "rolled_back"
    /\ shell.appended = { "bashrc" }
    /\ shell.before_run["bashrc"] = << "text" >>
    /\ shell.before_rollback["bashrc"] = << "text", "marker", "alias", "blank" >>
    /\ shell.files["bashrc"] = << "text", "blank" >>
    /\ alias_exists_in_file(shell.files["fish"])
    /\ shell.files["fish"] = shell.before_run["fish"]

\* C28: after ClaudeFilesStep.rollback none of the files that
\* ClaudeFilesStep.run installed and listed in ctx.config["installed_files"]
\* exists.
C28_RollbackRemovesInstalledFiles ==
    (last_call = Call("rollback", "claude_files", "ok")
        /\ "installed_files" \in config) =>
        env.repo \cap fs = {}

=============================================================================
